---- MODULE Spec2Model ----
(***************************************************************************)
(* The event dispatcher (AppWrapper, src/src/app/mod.rs) and the           *)
(* surface/device manager (Application, src/src/app/app.rs) as a state     *)
(* machine.  One action per ApplicationHandler callback; the answers of    *)
(* the external collaborators (window, canvas, GPU backend) are inputs     *)
(* drawn from small sets.  The build modelled is target_arch = "wasm32",   *)
(* the only target for which src/src/lib.rs resolves JsValue.              *)
(***************************************************************************)
EXTENDS Integers, Sequences, FiniteSets, TLC

VARIABLES app, redraw_requested, panic, log, submits, presents, renders

vars == <<app, redraw_requested, panic, log, submits, presents, renders>>

\* ---------------------------------------------------------------- bounds

\* Largest width/height the window or a Resized event reports.
MaxDim == 2
\* Longest format list the adapter reports.
MaxCaps == 2
\* The observation counters count modulo CountMod.
CountMod == 3

\* ---------------------------------------------------------------- values

\* Option<T>: None is the empty sequence, Some(x) the one-element sequence.
None == <<>>

Some(x) == <<x>>

Dims == 0..MaxDim

\* dpi::PhysicalSize<u32>
PhysicalSize == [width : Dims, height : Dims]

\* window::WindowId: the id of the window resumed() creates, and a foreign one.
CreatedWindowId == "canvas"

WindowIds == {CreatedWindowId, "foreign"}

\* wgpu::SurfaceError, as named by the spec (the handler's last arm is a
\* catch-all, so the set of non-Lost variants does not change its behaviour).
SurfaceErrors == {"Timeout", "Outdated", "Lost", "OutOfMemory", "Other"}

\* What surface.get_current_texture() answers.
TextureResults == {"Ok"} \cup SurfaceErrors

\* wgpu::TextureFormat values an adapter may report.
TextureFormats == {"Bgra8Unorm", "Bgra8UnormSrgb", "Rgba8UnormSrgb"}

is_srgb(format) == format \in {"Bgra8UnormSrgb", "Rgba8UnormSrgb"}

PresentModes == {"Fifo", "Mailbox"}

AlphaModes == {"Opaque", "PreMultiplied"}

SeqsUpTo(S, n) == UNION {[1..k -> S] : k \in 0..n}

\* wgpu::SurfaceCapabilities
\* The lists over S that name no entry twice.
ModeLists(S) ==
    {l \in SeqsUpTo(S, Cardinality(S)) :
        \A i, j \in 1..Len(l) : l[i] = l[j] => i = j}

\* wgpu::SurfaceCapabilities: any list of at most MaxCaps formats, and any
\* list of the present modes and of the alpha modes.
SurfaceCapabilities ==
    [formats : SeqsUpTo(TextureFormats, MaxCaps),
     present_modes : ModeLists(PresentModes),
     alpha_modes : ModeLists(AlphaModes)]

\* panic = NoPanic while no handler has panicked; otherwise the panic message.
NoPanic == "none"

\* BACKGROUND_COLOR of render(), in 1/255ths (0.372_549_03 = 95/255).
BACKGROUND_COLOR == [r |-> 0, g |-> 95, b |-> 95, a |-> 255]

\* desired_maximum_frame_latency of the configuration built by new().
DesiredMaximumFrameLatency == 2

\* ------------------------------------------------------------- log helpers

Op(name) == [op |-> name]

Info(msg) == [op |-> "log", level |-> "info", msg |-> msg]

Error(msg) == [op |-> "log", level |-> "error", msg |-> msg]

Warn(msg) == [op |-> "log", level |-> "warn", msg |-> msg]

HasOp(ops, name) == \E i \in 1..Len(ops) : ops[i].op = name

CountOp(ops, name) == Cardinality({i \in 1..Len(ops) : ops[i].op = name})

\* The position of the first name in ops, 0 when there is none.
FirstOp(ops, name) ==
    IF HasOp(ops, name)
    THEN CHOOSE i \in 1..Len(ops) :
            /\ ops[i].op = name
            /\ \A j \in 1..(i - 1) : ops[j].op # name
    ELSE 0

Bump(n, k) == (n + k) % CountMod

\* What a handler leaves behind: the dispatcher's app field, the panic it
\* raised (NoPanic when it returned), and the calls it made, in order.
Outcome(a, p, ops) == [app |-> a, panic |-> p, ops |-> ops]

\* ------------------------------------------------- Application (app.rs)

\* A variant of choose_format that takes the first reported format.
choose_format_first(formats) ==
    IF Len(formats) > 0 THEN Some(formats[1]) ELSE None

\* The format policy of Application::new: first sRGB entry, else first entry.
choose_format(formats) ==
    IF \E i \in 1..Len(formats) : is_srgb(formats[i])
    THEN Some(formats[CHOOSE i \in 1..Len(formats) :
                        /\ is_srgb(formats[i])
                        /\ \A j \in 1..(i - 1) : ~is_srgb(formats[j])])
    ELSE IF Len(formats) > 0 THEN Some(formats[1]) ELSE None

\* slice::first()
first(list) == IF Len(list) > 0 THEN Some(list[1]) ELSE None

\* The wgpu::SurfaceConfiguration literal of Application::new.
SurfaceConfiguration(size, format, present_mode, alpha_mode) ==
    [usage |-> "RENDER_ATTACHMENT",
     format |-> format,
     width |-> size.width,
     height |-> size.height,
     present_mode |-> present_mode,
     alpha_mode |-> alpha_mode,
     view_formats |-> <<>>,
     desired_maximum_frame_latency |-> DesiredMaximumFrameLatency]

\* A variant of AppError that reports an empty alpha-mode list as
\* NoPresentMode.
AppError_one_mode_error(surface_ok, adapter_ok, device_ok, caps) ==
    IF ~surface_ok THEN Some("Surface")
    ELSE IF ~adapter_ok THEN Some("Adapter")
    ELSE IF ~device_ok THEN Some("Device")
    ELSE IF choose_format(caps.formats) = None THEN Some("NoSurfaceFormats")
    ELSE IF first(caps.present_modes) = None THEN Some("NoPresentMode")
    ELSE IF first(caps.alpha_modes) = None THEN Some("NoPresentMode")
    ELSE None

\* The AppError Application::new returns for these answers, None when it
\* returns Ok: each ? returns at the first failure, in source order.
AppError(surface_ok, adapter_ok, device_ok, caps) ==
    IF ~surface_ok THEN Some("Surface")
    ELSE IF ~adapter_ok THEN Some("Adapter")
    ELSE IF ~device_ok THEN Some("Device")
    ELSE IF choose_format(caps.formats) = None THEN Some("NoSurfaceFormats")
    ELSE IF first(caps.present_modes) = None THEN Some("NoPresentMode")
    ELSE IF first(caps.alpha_modes) = None THEN Some("NoAlphaMode")
    ELSE None

\* A variant of ApplicationNew that also configures the surface it creates.
ApplicationNew_configures(window_id, size, surface_ok, adapter_ok, device_ok, caps) ==
    IF AppError(surface_ok, adapter_ok, device_ok, caps) # None
    THEN [ok |-> FALSE, err |-> AppError(surface_ok, adapter_ok, device_ok, caps)[1]]
    ELSE LET config == SurfaceConfiguration(size, choose_format(caps.formats)[1],
                                            first(caps.present_modes)[1],
                                            first(caps.alpha_modes)[1])
         IN [ok |-> TRUE,
             app |-> [surface |-> Some(config), config |-> config,
                      window |-> window_id]]

\* Application::new: the surface, adapter and device requests answer
\* surface_ok, adapter_ok, device_ok; the adapter reports caps.  The result
\* is Ok with the new Application, or Err with the AppError.  The surface is
\* created and not configured: surface holds the configuration last applied
\* to it, None while it has none.
ApplicationNew(window_id, size, surface_ok, adapter_ok, device_ok, caps) ==
    IF AppError(surface_ok, adapter_ok, device_ok, caps) # None
    THEN [ok |-> FALSE, err |-> AppError(surface_ok, adapter_ok, device_ok, caps)[1]]
    ELSE LET config == SurfaceConfiguration(size, choose_format(caps.formats)[1],
                                            first(caps.present_modes)[1],
                                            first(caps.alpha_modes)[1])
         IN [ok |-> TRUE,
             app |-> [surface |-> None, config |-> config, window |-> window_id]]

\* A variant of resize that also resets the present mode to Fifo.
resize_resets_present_mode(a, new_size) ==
    IF new_size.width > 0 /\ new_size.height > 0
    THEN LET config == [a.config EXCEPT !.width = new_size.width,
                                        !.height = new_size.height,
                                        !.present_mode = "Fifo"]
         IN [app |-> [a EXCEPT !.config = config, !.surface = Some(config)],
             result |-> "Ok", ops |-> <<Op("configure")>>]
    ELSE [app |-> a, result |-> "ZeroDimension", ops |-> <<>>]

\* A variant of resize without the zero-dimension check.
resize_unchecked(a, new_size) ==
    LET config == [a.config EXCEPT !.width = new_size.width,
                                   !.height = new_size.height]
    IN [app |-> [a EXCEPT !.config = config, !.surface = Some(config)],
        result |-> "Ok", ops |-> <<Op("configure")>>]

\* A variant of resize that stores the new width before it checks the size.
resize_partial(a, new_size) ==
    IF new_size.width > 0 /\ new_size.height > 0
    THEN LET config == [a.config EXCEPT !.width = new_size.width,
                                        !.height = new_size.height]
         IN [app |-> [a EXCEPT !.config = config, !.surface = Some(config)],
             result |-> "Ok",
             ops |-> <<Op("configure")>>]
    ELSE [app |-> [a EXCEPT !.config.width = new_size.width],
          result |-> "ZeroDimension", ops |-> <<>>]

\* A variant of resize that stores width and height swapped.
resize_swapped(a, new_size) ==
    IF new_size.width > 0 /\ new_size.height > 0
    THEN LET config == [a.config EXCEPT !.width = new_size.height,
                                        !.height = new_size.width]
         IN [app |-> [a EXCEPT !.config = config, !.surface = Some(config)],
             result |-> "Ok",
             ops |-> <<Op("configure")>>]
    ELSE [app |-> a, result |-> "ZeroDimension", ops |-> <<>>]

\* A variant of resize that skips the reconfiguration when the size is the
\* one already stored.
resize_skips_unchanged(a, new_size) ==
    IF new_size.width > 0 /\ new_size.height > 0
    THEN IF new_size.width = a.config.width /\ new_size.height = a.config.height
         THEN [app |-> a, result |-> "Ok", ops |-> <<>>]
         ELSE LET config == [a.config EXCEPT !.width = new_size.width,
                                             !.height = new_size.height]
              IN [app |-> [a EXCEPT !.config = config, !.surface = Some(config)],
                  result |-> "Ok",
                  ops |-> <<Op("configure")>>]
    ELSE [app |-> a, result |-> "ZeroDimension", ops |-> <<>>]

\* Application::resize on the Application a: the Application afterwards, the
\* result, and the calls made.  surface.configure(&device, &config) stores
\* the configuration in the surface.
resize(a, new_size) ==
    IF new_size.width > 0 /\ new_size.height > 0
    THEN LET config == [a.config EXCEPT !.width = new_size.width,
                                        !.height = new_size.height]
         IN [app |-> [a EXCEPT !.config = config, !.surface = Some(config)],
             result |-> "Ok",
             ops |-> <<Op("configure")>>]
    ELSE [app |-> a, result |-> "ZeroDimension", ops |-> <<>>]

\* Application::update
update(a) == a

\* A variant of render that submits the frame and never presents it.
render_without_present(a, acquired) ==
    IF acquired # "Ok"
    THEN [result |-> acquired,
          ops |-> <<[op |-> "get_current_texture", result |-> acquired]>>]
    ELSE [result |-> "Ok",
          ops |-> <<[op |-> "get_current_texture", result |-> "Ok"],
                    Op("create_view"),
                    Op("create_command_encoder"),
                    [op |-> "begin_render_pass", clear |-> BACKGROUND_COLOR],
                    Op("submit")>>]

\* Application::render: get_current_texture() answers acquired; the ?
\* returns its error before anything else is done.
render(a, acquired) ==
    IF acquired # "Ok"
    THEN [result |-> acquired,
          ops |-> <<[op |-> "get_current_texture", result |-> acquired]>>]
    ELSE [result |-> "Ok",
          ops |-> <<[op |-> "get_current_texture", result |-> "Ok"],
                    Op("create_view"),
                    Op("create_command_encoder"),
                    [op |-> "begin_render_pass", clear |-> BACKGROUND_COLOR],
                    Op("submit"),
                    Op("present")>>]

\* --------------------------------------------------- AppWrapper (mod.rs)

\* AppWrapper::new
AppWrapperNew == None

\* What the platform answers while resumed() creates the window.
Platforms == {"ok", "no_window", "no_document", "no_canvas", "create_window_failed"}

PlatformPanic(platform) ==
    CASE platform = "no_window" -> "Window should be loaded"
      [] platform = "no_document" -> "Document should be loaded"
      [] platform = "no_canvas" -> "Canvas should exist"
      [] platform = "create_window_failed" -> "Creating a window should not fail"

NoCaps == [formats |-> <<>>, present_modes |-> <<>>, alpha_modes |-> <<>>]

ZeroSize == [width |-> 0, height |-> 0]

ResumeInput(platform, size, surface_ok, adapter_ok, device_ok, caps) ==
    [platform |-> platform, size |-> size, surface_ok |-> surface_ok,
     adapter_ok |-> adapter_ok, device_ok |-> device_ok, caps |-> caps]

\* The answers resumed() can meet when the adapter reports one of reports: a
\* platform failure ends it before the window size is read, a failed GPU
\* request before the capabilities are.
ResumeInputsOver(reports) ==
    {ResumeInput(p, ZeroSize, TRUE, TRUE, TRUE, NoCaps) : p \in Platforms \ {"ok"}}
    \cup {ResumeInput("ok", s, FALSE, TRUE, TRUE, NoCaps) : s \in PhysicalSize}
    \cup {ResumeInput("ok", s, TRUE, FALSE, TRUE, NoCaps) : s \in PhysicalSize}
    \cup {ResumeInput("ok", s, TRUE, TRUE, FALSE, NoCaps) : s \in PhysicalSize}
    \cup {ResumeInput("ok", s, TRUE, TRUE, TRUE, c) : s \in PhysicalSize, c \in reports}

ResumeInputs == ResumeInputsOver(SurfaceCapabilities)

\* surface.get_capabilities(&adapter), which Application::new reaches once
\* the surface, the adapter and the device exist: the call and its answer.
get_capabilities(in) ==
    IF in.surface_ok /\ in.adapter_ok /\ in.device_ok
    THEN <<[op |-> "get_capabilities", caps |-> in.caps]>>
    ELSE <<>>

\* A variant of resumed_body that constructs the Application on every Resume.
resumed_body_recreates(self_app, in) ==
    IF in.platform # "ok"
    THEN Outcome(None, PlatformPanic(in.platform), <<>>)
    ELSE LET new == ApplicationNew(CreatedWindowId, in.size, in.surface_ok,
                                   in.adapter_ok, in.device_ok, in.caps)
             ops == <<Op("create_window"),
                      [op |-> "inner_size", size |-> in.size]>>
                    \o get_capabilities(in)
                    \o <<[op |-> "Application::new",
                          result |-> IF new.ok THEN "Ok" ELSE new.err]>>
         IN IF new.ok
            THEN Outcome(Some(new.app), NoPanic, ops)
            ELSE Outcome(None, "Creating application should not fail", ops)

\* A variant of resumed_body that logs a failed construction and returns.
resumed_body_survives(self_app, in) ==
    IF self_app = None
    THEN IF in.platform # "ok"
         THEN Outcome(None, PlatformPanic(in.platform), <<>>)
         ELSE LET new == ApplicationNew(CreatedWindowId, in.size, in.surface_ok,
                                        in.adapter_ok, in.device_ok, in.caps)
                  ops == <<Op("create_window"),
                           [op |-> "inner_size", size |-> in.size]>>
                         \o get_capabilities(in)
                         \o <<[op |-> "Application::new",
                               result |-> IF new.ok THEN "Ok" ELSE new.err]>>
              IN IF new.ok
                 THEN Outcome(Some(new.app), NoPanic, ops)
                 ELSE Outcome(None, NoPanic, ops \o <<Error(new.err)>>)
    ELSE Outcome(self_app, NoPanic, <<>>)

\* The body of AppWrapper::resumed.
resumed_body(self_app, in) ==
    IF self_app = None
    THEN IF in.platform # "ok"
         THEN Outcome(None, PlatformPanic(in.platform), <<>>)
         ELSE LET new == ApplicationNew(CreatedWindowId, in.size, in.surface_ok,
                                        in.adapter_ok, in.device_ok, in.caps)
                  ops == <<Op("create_window"),
                           [op |-> "inner_size", size |-> in.size]>>
                         \o get_capabilities(in)
                         \o <<[op |-> "Application::new",
                               result |-> IF new.ok THEN "Ok" ELSE new.err]>>
              IN IF new.ok
                 THEN Outcome(Some(new.app), NoPanic, ops)
                 ELSE Outcome(None, "Creating application should not fail", ops)
    ELSE Outcome(self_app, NoPanic, <<>>)

\* A variant of match_render that also resizes when the surface is Outdated.
match_render_outdated(a, rendered, inner_size) ==
    IF rendered.result = "Ok"
    THEN Outcome(Some(a), NoPanic, <<>>)
    ELSE IF rendered.result \in {"Lost", "Outdated"}
    THEN LET resized == resize(a, inner_size)
         IN Outcome(Some(resized.app),
                    IF resized.result = "Ok" THEN NoPanic
                    ELSE "Window size should be valid",
                    <<[op |-> "inner_size", size |-> inner_size],
                      [op |-> "resize", new_size |-> inner_size,
                       result |-> resized.result]>> \o resized.ops)
    ELSE Outcome(Some(a), NoPanic, <<Error(rendered.result)>>)

\* The match on render()'s result in the RedrawRequested arm: nothing on
\* Ok, resize(window.inner_size()).expect(..) on Lost, error!() otherwise.
match_render(a, rendered, inner_size) ==
    IF rendered.result = "Ok"
    THEN Outcome(Some(a), NoPanic, <<>>)
    ELSE IF rendered.result = "Lost"
    THEN LET resized == resize(a, inner_size)
         IN Outcome(Some(resized.app),
                    IF resized.result = "Ok" THEN NoPanic
                    ELSE "Window size should be valid",
                    <<[op |-> "inner_size", size |-> inner_size],
                      [op |-> "resize", new_size |-> inner_size,
                       result |-> resized.result]>> \o resized.ops)
    ELSE Outcome(Some(a), NoPanic, <<Error(rendered.result)>>)

\* A variant of RedrawRequested that requests the next redraw only when the
\* render succeeded or the surface was recovered.
RedrawRequested_stalls(a, acquired, inner_size) ==
    LET updated == update(a)
        rendered == render(updated, acquired)
        matched == match_render(updated, rendered, inner_size)
        ops == <<Op("update")>> \o rendered.ops
               \o <<[op |-> "render", result |-> rendered.result]>> \o matched.ops
    IN IF matched.panic = NoPanic /\ rendered.result \in {"Ok", "Lost"}
       THEN Outcome(matched.app, NoPanic, ops \o <<Op("request_redraw")>>)
       ELSE Outcome(matched.app, matched.panic, ops)

\* A variant of RedrawRequested that never requests the next redraw.
RedrawRequested_once(a, acquired, inner_size) ==
    LET updated == update(a)
        rendered == render(updated, acquired)
        matched == match_render(updated, rendered, inner_size)
        ops == <<Op("update")>> \o rendered.ops
               \o <<[op |-> "render", result |-> rendered.result]>> \o matched.ops
    IN Outcome(matched.app, matched.panic, ops)

\* The RedrawRequested arm of AppWrapper::window_event: update(), render(),
\* the match on its result, then window().request_redraw() unless the match
\* panicked.
RedrawRequested(a, acquired, inner_size) ==
    LET updated == update(a)
        rendered == render(updated, acquired)
        matched == match_render(updated, rendered, inner_size)
        ops == <<Op("update")>> \o rendered.ops
               \o <<[op |-> "render", result |-> rendered.result]>> \o matched.ops
    IN IF matched.panic = NoPanic
       THEN Outcome(matched.app, NoPanic, ops \o <<Op("request_redraw")>>)
       ELSE Outcome(matched.app, matched.panic, ops)

\* A variant of Resized that requests a redraw after a successful resize.
Resized_redraws(a, physical_size) ==
    LET resized == resize(a, physical_size)
        ops == <<[op |-> "resize", new_size |-> physical_size,
                  result |-> resized.result]>> \o resized.ops
    IN IF resized.result = "Ok"
       THEN Outcome(Some(resized.app), NoPanic, ops \o <<Op("request_redraw")>>)
       ELSE Outcome(Some(resized.app), "New size should be valid", ops)

\* The Resized arm of AppWrapper::window_event.
Resized(a, physical_size) ==
    LET resized == resize(a, physical_size)
        ops == <<[op |-> "resize", new_size |-> physical_size,
                  result |-> resized.result]>> \o resized.ops
    IN IF resized.result = "Ok"
       THEN Outcome(Some(resized.app), NoPanic, ops)
       ELSE Outcome(Some(resized.app), "New size should be valid", ops)

\* A variant of window_id_matches that accepts every window id.
window_id_matches_any(a, window_id) == TRUE

\* The assert_eq! of AppWrapper::window_event.
window_id_matches(a, window_id) == a.window = window_id

\* WindowEvent values: the two the dispatcher acts on, and two it only logs.
WindowEvents ==
    {[kind |-> "RedrawRequested"]}
    \cup {[kind |-> "Resized", physical_size |-> s] : s \in PhysicalSize}
    \cup {[kind |-> "CloseRequested"], [kind |-> "Focused"]}

\* A variant of window_event_body that unwraps the application instead of
\* matching on it.
window_event_body_unwraps(self_app, window_id, event, acquired, inner_size) ==
    IF self_app # None
    THEN IF ~window_id_matches(self_app[1], window_id)
         THEN Outcome(self_app, "Only the created window should emit events", <<>>)
         ELSE IF event.kind = "RedrawRequested"
         THEN RedrawRequested(self_app[1], acquired, inner_size)
         ELSE IF event.kind = "Resized"
         THEN Resized(self_app[1], event.physical_size)
         ELSE Outcome(self_app, NoPanic, <<Info("Received window event")>>)
    ELSE Outcome(None, "called Option::unwrap() on a None value", <<>>)

\* A variant of window_event_body whose arm for the other events also
\* requests a redraw.
window_event_body_redraws(self_app, window_id, event, acquired, inner_size) ==
    IF self_app # None
    THEN IF ~window_id_matches(self_app[1], window_id)
         THEN Outcome(self_app, "Only the created window should emit events", <<>>)
         ELSE IF event.kind = "RedrawRequested"
         THEN RedrawRequested(self_app[1], acquired, inner_size)
         ELSE IF event.kind = "Resized"
         THEN Resized(self_app[1], event.physical_size)
         ELSE Outcome(self_app, NoPanic,
                      <<Info("Received window event"), Op("request_redraw")>>)
    ELSE Outcome(None, NoPanic, <<Info("[UNINITIALIZED] Receieved window event")>>)

\* The body of AppWrapper::window_event: the if let Some, the assert_eq!,
\* the match on the event, and the else branch.
window_event_body(self_app, window_id, event, acquired, inner_size) ==
    IF self_app # None
    THEN IF ~window_id_matches(self_app[1], window_id)
         THEN Outcome(self_app, "Only the created window should emit events", <<>>)
         ELSE IF event.kind = "RedrawRequested"
         THEN RedrawRequested(self_app[1], acquired, inner_size)
         ELSE IF event.kind = "Resized"
         THEN Resized(self_app[1], event.physical_size)
         ELSE Outcome(self_app, NoPanic, <<Info("Received window event")>>)
    ELSE Outcome(None, NoPanic, <<Info("[UNINITIALIZED] Receieved window event")>>)

\* The body of AppWrapper::user_event.
user_event_body(self_app) == Outcome(self_app, "Custom event sent", <<>>)

\* The state after a handler with outcome r.  delivered is TRUE when the
\* event loop delivered the created window's RedrawRequested, which clears
\* the window's pending redraw request before the handler runs.
Handled(r, delivered) ==
    /\ app' = r.app
    /\ panic' = r.panic
    /\ log' = r.ops
    /\ redraw_requested' =
           ((redraw_requested /\ ~delivered) \/ HasOp(r.ops, "request_redraw"))
    /\ submits' = Bump(submits, CountOp(r.ops, "submit"))
    /\ presents' = Bump(presents, CountOp(r.ops, "present"))
    /\ renders' = Bump(renders,
                       Cardinality({i \in 1..Len(r.ops) :
                                       r.ops[i] = [op |-> "render", result |-> "Ok"]}))

\* ---------------------------------------------------------------- actions

Init ==
    /\ app = AppWrapperNew
    /\ redraw_requested = FALSE
    /\ panic = NoPanic
    /\ log = <<>>
    /\ submits = 0
    /\ presents = 0
    /\ renders = 0

resumed_from(inputs) ==
    /\ panic = NoPanic
    /\ \E in \in IF app = None THEN inputs
                 ELSE {ResumeInput("ok", ZeroSize, TRUE, TRUE, TRUE, NoCaps)} :
          Handled(resumed_body(app, in), FALSE)

resumed == resumed_from(ResumeInputs)

\* What get_current_texture() and, after Lost, window.inner_size() answer in
\* the RedrawRequested arm: the window size is read on Lost only.
RenderAnswers ==
    {<<t, ZeroSize>> : t \in TextureResults \ {"Lost"}}
    \cup {<<"Lost", s>> : s \in PhysicalSize}

\* The answers the handler of event can read: only the RedrawRequested arm
\* reads any.
Answers(self_app, window_id, event) ==
    IF self_app # None /\ event.kind = "RedrawRequested"
       /\ window_id = self_app[1].window
    THEN RenderAnswers
    ELSE {<<"Ok", ZeroSize>>}

window_event ==
    /\ panic = NoPanic
    /\ \E window_id \in WindowIds, event \in WindowEvents :
          \E answer \in Answers(app, window_id, event) :
             Handled(window_event_body(app, window_id, event, answer[1], answer[2]),
                     /\ event.kind = "RedrawRequested"
                     /\ app # None
                     /\ window_id = app[1].window)

new_events ==
    /\ panic = NoPanic
    /\ Handled(Outcome(app, NoPanic, <<Info("Received new OS event")>>), FALSE)

user_event ==
    /\ panic = NoPanic
    /\ Handled(user_event_body(app), FALSE)

device_event ==
    /\ panic = NoPanic
    /\ Handled(Outcome(app, NoPanic, <<Info("Received new device event")>>), FALSE)

about_to_wait ==
    /\ panic = NoPanic
    /\ Handled(Outcome(app, NoPanic, <<>>), FALSE)

suspended ==
    /\ panic = NoPanic
    /\ Handled(Outcome(app, NoPanic, <<Info("Application suspended")>>), FALSE)

exiting ==
    /\ panic = NoPanic
    /\ Handled(Outcome(app, NoPanic, <<Info("Application exiting")>>), FALSE)

memory_warning ==
    /\ panic = NoPanic
    /\ Handled(Outcome(app, NoPanic, <<Warn("Memory warning")>>), FALSE)

Next ==
    \/ resumed
    \/ window_event
    \/ new_events
    \/ user_event
    \/ device_event
    \/ about_to_wait
    \/ suspended
    \/ exiting
    \/ memory_warning

Spec == Init /\ [][Next]_vars

\* The event loop delivers the RedrawRequested that request_redraw() asked
\* for.
redraw_delivered ==
    /\ panic = NoPanic
    /\ app # None
    /\ redraw_requested
    /\ \E answer \in Answers(app, app[1].window, [kind |-> "RedrawRequested"]) :
          Handled(window_event_body(app, app[1].window, [kind |-> "RedrawRequested"],
                                    answer[1], answer[2]),
                  TRUE)

\* The capability reports of the fair specification: an empty one and one
\* with a single entry in each list (the redraw loop reads none of them).
LiveReports ==
    {NoCaps,
     [formats |-> <<"Bgra8UnormSrgb">>, present_modes |-> <<"Fifo">>,
      alpha_modes |-> <<"Opaque">>]}

LiveNext ==
    \/ resumed_from(ResumeInputsOver(LiveReports))
    \/ window_event
    \/ new_events
    \/ user_event
    \/ device_event
    \/ about_to_wait
    \/ suspended
    \/ exiting
    \/ memory_warning

\* The program with every requested redraw eventually delivered while no
\* handler has panicked.
LiveSpec == Init /\ [][LiveNext]_vars /\ WF_vars(redraw_delivered)

\* ------------------------------------------------------ reading the log

Initialized == app # None

\* The result Application::render returned in the handler that wrote ops.
RenderResult(ops) == ops[FirstOp(ops, "render")].result

\* The handler that wrote ops called render() and it failed with an error
\* other than Lost.
RenderFailedNotLost(ops) ==
    /\ HasOp(ops, "render")
    /\ RenderResult(ops) \in SurfaceErrors \ {"Lost"}

RenderLost(ops) == HasOp(ops, "render") /\ RenderResult(ops) = "Lost"

RenderOk(ops) == HasOp(ops, "render") /\ RenderResult(ops) = "Ok"

\* The resize() call recorded in ops.
ResizeCall(ops) == ops[FirstOp(ops, "resize")]

\* ----------------------------------------------------------------- claims

\* C1 as stated: after a RedrawRequested whose render failed with an error
\* other than Lost, the error has been logged and the handler has issued no
\* redraw request.
C1_NoRedrawAfterRenderError ==
    RenderFailedNotLost(log) =>
        /\ HasOp(log, "log")
        /\ ~HasOp(log, "request_redraw")

\* C1 amended: after a RedrawRequested whose render failed with an error
\* other than Lost, the handler has logged the error and then issued exactly
\* one redraw request, with no resize in between, so a redraw is pending.
C1_RedrawAfterRenderError ==
    RenderFailedNotLost(log) =>
        /\ log = <<Op("update"),
                   [op |-> "get_current_texture", result |-> RenderResult(log)],
                   [op |-> "render", result |-> RenderResult(log)],
                   Error(RenderResult(log)),
                   Op("request_redraw")>>
        /\ redraw_requested
        /\ panic = NoPanic

C1_Witness ==
    /\ Initialized
    /\ RenderFailedNotLost(log)
    /\ RenderResult(log) = "Timeout"
    /\ HasOp(log, "request_redraw")

\* C2 as stated: after a RedrawRequested whose render reported Lost, resize
\* was called with the size the window reported, it succeeded, and a redraw
\* request followed it.
C2_LostRecovers ==
    RenderLost(log) =>
        /\ HasOp(log, "inner_size")
        /\ HasOp(log, "resize")
        /\ ResizeCall(log).new_size = log[FirstOp(log, "inner_size")].size
        /\ ResizeCall(log).result = "Ok"
        /\ panic = NoPanic
        /\ FirstOp(log, "request_redraw") > FirstOp(log, "resize")

\* C3 as stated: whenever the dispatcher is Initialized the surface has been
\* configured.
C3_ConfiguredWhenInitialized == Initialized => app[1].surface # None

\* C3 amended: construction leaves the surface unconfigured, and the surface
\* is configured only by a successful resize(), with the stored configuration.
C3_ConfiguredOnlyByResize ==
    [][/\ (~Initialized /\ Initialized') => app'[1].surface = None
       /\ (Initialized /\ Initialized' /\ app'[1].surface # app[1].surface) =>
             /\ HasOp(log', "resize")
             /\ ResizeCall(log').result = "Ok"
             /\ app'[1].surface = Some(app'[1].config)]_vars

\* A frame was rendered and presented on a surface that was never configured.
C3_Witness ==
    /\ Initialized
    /\ app[1].surface = None
    /\ RenderOk(log)
    /\ HasOp(log, "present")

\* A step out of the Uninitialized state is a Resume exactly when it creates
\* the window or panics while trying to.
ResumePanics == {PlatformPanic(p) : p \in Platforms \ {"ok"}}

\* C4 as stated: while Uninitialized, every step that is not a Resume leaves
\* the dispatcher Uninitialized and raises no panic.
C4_AllButResumeIgnored ==
    [][(/\ ~Initialized
        /\ ~HasOp(log', "create_window")
        /\ panic' \notin ResumePanics) =>
            (~Initialized' /\ panic' = NoPanic)]_vars

\* C4 amended: while Uninitialized, every step that is neither a Resume nor
\* a UserEvent (which panics with "Custom event sent") only logs: no state
\* change, no panic; and only a Resume makes the dispatcher Initialized.
C4_IgnoredWhileUninitialized ==
    [][/\ (/\ ~Initialized
           /\ ~HasOp(log', "create_window")
           /\ panic' \notin ResumePanics
           /\ panic' # "Custom event sent") =>
             /\ ~Initialized'
             /\ panic' = NoPanic
             /\ \A i \in 1..Len(log') : log'[i].op = "log"
             /\ UNCHANGED <<redraw_requested, submits, presents, renders>>
       /\ (~Initialized /\ Initialized') =>
             /\ HasOp(log', "create_window")
             /\ log'[Len(log')] = [op |-> "Application::new", result |-> "Ok"]]_vars

C4_Witness ==
    /\ ~Initialized
    /\ panic = NoPanic
    /\ log = <<Info("[UNINITIALIZED] Receieved window event")>>

\* C5: a handler that called resize() with a zero width or height got
\* ZeroDimension, left the whole Application (configuration and surface) as
\* it was, and did not reconfigure the surface.
C5_ZeroResizeChangesNothing ==
    [][(/\ HasOp(log', "resize")
        /\ \/ ResizeCall(log').new_size.width = 0
           \/ ResizeCall(log').new_size.height = 0) =>
            /\ ResizeCall(log').result = "ZeroDimension"
            /\ app' = app
            /\ ~HasOp(log', "configure")]_vars

C5_Witness ==
    /\ Initialized
    /\ HasOp(log, "resize")
    /\ ResizeCall(log).result = "ZeroDimension"
    /\ ResizeCall(log).new_size.width > 0
    /\ app[1].config.height > 0
    /\ app[1].surface # None

\* C6: after a handler called resize() with a positive width and height, the
\* call returned Ok, the stored configuration has exactly that width and
\* height, and the surface has been reconfigured with that configuration.
C6_PositiveResizeSucceeds ==
    (/\ HasOp(log, "resize")
     /\ ResizeCall(log).new_size.width > 0
     /\ ResizeCall(log).new_size.height > 0) =>
        /\ ResizeCall(log).result = "Ok"
        /\ panic = NoPanic
        /\ Initialized
        /\ app[1].config.width = ResizeCall(log).new_size.width
        /\ app[1].config.height = ResizeCall(log).new_size.height
        /\ CountOp(log, "configure") = 1
        /\ FirstOp(log, "configure") > FirstOp(log, "resize")
        /\ app[1].surface = Some(app[1].config)

C6_Witness ==
    /\ HasOp(log, "resize")
    /\ ResizeCall(log).new_size = [width |-> 2, height |-> 1]
    /\ ResizeCall(log).result = "Ok"

\* C7: from every reachable Application and for every positive size, a second
\* resize() with the same size leaves the Application the first one left,
\* succeeds and reconfigures the surface; and a Resized event that reports the
\* size already stored and applied leaves the Application as it was and still
\* reconfigures the surface.
C7_ResizeIdempotent ==
    /\ [](Initialized =>
             \A s \in PhysicalSize :
                (s.width > 0 /\ s.height > 0) =>
                    LET once == resize(app[1], s)
                        twice == resize(once.app, s)
                    IN /\ once.result = "Ok"
                       /\ twice.result = "Ok"
                       /\ twice.app = once.app
                       /\ twice.ops = <<Op("configure")>>)
    /\ [][(/\ Initialized
           /\ HasOp(log', "resize")
           /\ ResizeCall(log').result = "Ok"
           /\ app[1].surface = Some(app[1].config)
           /\ ResizeCall(log').new_size.width = app[1].config.width
           /\ ResizeCall(log').new_size.height = app[1].config.height) =>
              /\ app' = app
              /\ HasOp(log', "configure")]_vars

C7_Witness ==
    /\ Initialized
    /\ HasOp(log, "resize")
    /\ ResizeCall(log).result = "Ok"
    /\ ResizeCall(log).new_size = [width |-> 1, height |-> 2]
    /\ app[1].surface = Some(app[1].config)

\* C8: a handler whose render() succeeded made exactly one submission and
\* then exactly one present, after acquiring the texture; a handler whose
\* render() failed made neither; so submissions, presents and successful
\* renders are equal in number (counted modulo CountMod).
C8_OneSubmitOnePresentPerRender ==
    /\ submits = renders
    /\ presents = renders
    /\ HasOp(log, "render") =>
          IF RenderResult(log) = "Ok"
          THEN /\ CountOp(log, "submit") = 1
               /\ CountOp(log, "present") = 1
               /\ FirstOp(log, "get_current_texture") < FirstOp(log, "submit")
               /\ FirstOp(log, "submit") < FirstOp(log, "present")
               /\ FirstOp(log, "present") < FirstOp(log, "render")
          ELSE /\ ~HasOp(log, "submit")
               /\ ~HasOp(log, "present")
    /\ ~HasOp(log, "render") => (~HasOp(log, "submit") /\ ~HasOp(log, "present"))

C8_Witness ==
    /\ renders = 2
    /\ submits = 2
    /\ HasOp(log, "render")
    /\ RenderResult(log) = "Outdated"

\* C9: in the Initialized state every window event whose window id is not
\* the created window's panics at the assert_eq!, and the step that raises
\* that panic calls nothing and changes nothing but the panic.
C9_ForeignWindowPanicsFirst ==
    /\ []((Initialized /\ panic = NoPanic) =>
             \A window_id \in WindowIds \ {app[1].window}, event \in WindowEvents :
                \A answer \in RenderAnswers :
                   window_event_body(app, window_id, event, answer[1], answer[2])
                      = Outcome(app, "Only the created window should emit events", <<>>))
    /\ [][panic' = "Only the created window should emit events" =>
             /\ Initialized
             /\ log' = <<>>
             /\ UNCHANGED <<app, redraw_requested, submits, presents, renders>>]_vars

C9_Witness ==
    /\ Initialized
    /\ panic = "Only the created window should emit events"
    /\ app[1].surface # None
    /\ redraw_requested

\* C10: a RedrawRequested whose render() succeeded ends with exactly one
\* redraw request, issued after the present, so a redraw is pending; and when
\* every pending redraw is eventually delivered, then once a render has
\* succeeded RedrawRequested is handled infinitely often unless a handler
\* panics.
C10_SelfSustaining ==
    /\ [](RenderOk(log) =>
            /\ CountOp(log, "request_redraw") = 1
            /\ log[Len(log)] = Op("request_redraw")
            /\ FirstOp(log, "request_redraw") > FirstOp(log, "present")
            /\ redraw_requested
            /\ panic = NoPanic)
    /\ <>RenderOk(log) =>
          ([]<><<redraw_delivered>>_vars \/ <>(panic # NoPanic))

C10_Witness ==
    /\ RenderOk(log)
    /\ redraw_requested
    /\ renders = 2

\* C11: the Application is constructed at most once.  While Initialized, a
\* Resume is a no-op that returns the same Application, no step constructs
\* an Application or creates a window, and every step leaves the dispatcher
\* Initialized and bound to the same window.
C11_ConstructedOnce ==
    /\ [](Initialized =>
            \A in \in ResumeInputsOver(LiveReports) :
                resumed_body(app, in) = Outcome(app, NoPanic, <<>>))
    /\ [][Initialized =>
            /\ Initialized'
            /\ app'[1].window = app[1].window
            /\ ~HasOp(log', "create_window")
            /\ ~HasOp(log', "Application::new")
            /\ (app' # app => HasOp(log', "configure"))]_vars

\* Initialized, the surface already configured, and the last handler made
\* no call at all, as a later Resume does.
C11_Witness ==
    /\ Initialized
    /\ app[1].surface # None
    /\ panic = NoPanic
    /\ log = <<>>

\* The capability report Application::new read in the last handler.
ReportedCaps(ops) == ops[FirstOp(ops, "get_capabilities")].caps

NewResult(ops) == ops[FirstOp(ops, "Application::new")].result

\* C13: a construction that read an empty format list returned
\* NoSurfaceFormats; one that read formats and an empty present-mode list
\* returned NoPresentMode; one that read formats, present modes and an empty
\* alpha-mode list returned NoAlphaMode; and a construction that returned an
\* error left no Application behind.
C13_EmptyListFails ==
    HasOp(log, "get_capabilities") =>
        LET caps == ReportedCaps(log)
            result == NewResult(log)
        IN /\ caps.formats = <<>> => result = "NoSurfaceFormats"
           /\ (caps.formats # <<>> /\ caps.present_modes = <<>>) =>
                  result = "NoPresentMode"
           /\ (/\ caps.formats # <<>>
               /\ caps.present_modes # <<>>
               /\ caps.alpha_modes = <<>>) => result = "NoAlphaMode"
           /\ result # "Ok" => ~Initialized

\* A construction that read formats and present modes and no alpha mode.
C13_Witness ==
    /\ HasOp(log, "get_capabilities")
    /\ ReportedCaps(log).formats # <<>>
    /\ ReportedCaps(log).present_modes # <<>>
    /\ ReportedCaps(log).alpha_modes = <<>>
    /\ NewResult(log) = "NoAlphaMode"
    /\ ~Initialized

\* C14: the configuration last applied to the surface has a positive width
\* and a positive height, and a handler that called surface.configure
\* applied the stored configuration.
C14_AppliedConfigPositive ==
    /\ (Initialized /\ app[1].surface # None) =>
          /\ app[1].surface[1].width > 0
          /\ app[1].surface[1].height > 0
    /\ HasOp(log, "configure") =>
          /\ Initialized
          /\ app[1].surface = Some(app[1].config)

\* The recovery from a lost surface applied a configuration.
C14_Witness ==
    /\ Initialized
    /\ RenderLost(log)
    /\ HasOp(log, "configure")
    /\ app[1].surface = Some(app[1].config)

\* C15: a Resume whose construction returned an error (Surface, Adapter,
\* Device or a capability error) panicked with "Creating application should
\* not fail" and left the dispatcher Uninitialized, and no handler runs
\* after that panic.
C15_FailedConstructionIsFatal ==
    /\ []((HasOp(log, "Application::new") /\ NewResult(log) # "Ok") =>
            /\ panic = "Creating application should not fail"
            /\ ~Initialized)
    /\ [](panic = "Creating application should not fail" =>
            /\ HasOp(log, "Application::new")
            /\ NewResult(log) # "Ok")
    /\ [][panic # "Creating application should not fail"]_vars

\* The device request failed during the Resume.
C15_Witness ==
    /\ HasOp(log, "Application::new")
    /\ NewResult(log) = "Device"
    /\ panic = "Creating application should not fail"
    /\ ~Initialized

\* The last handler was the Resized arm: its first call is resize().
ResizedHandled(ops) == Len(ops) > 0 /\ ops[1].op = "resize"

\* C16: while Initialized, the Resized handler of the created window, given
\* a positive width and height, stores exactly that width and height, does
\* not panic, does not render and issues no redraw request; given a zero
\* width or height it panics with "New size should be valid" and leaves the
\* Application as it was.
C16_ResizedEvent ==
    [][(Initialized /\ ResizedHandled(log')) =>
          LET new_size == log'[1].new_size
          IN IF new_size.width > 0 /\ new_size.height > 0
             THEN /\ panic' = NoPanic
                  /\ app'[1].config.width = new_size.width
                  /\ app'[1].config.height = new_size.height
                  /\ ~HasOp(log', "request_redraw")
                  /\ ~HasOp(log', "render")
                  /\ redraw_requested' = redraw_requested
             ELSE /\ panic' = "New size should be valid"
                  /\ app' = app
                  /\ ~HasOp(log', "configure")
                  /\ redraw_requested' = redraw_requested]_vars

\* A Resized event with a zero height reached a configured Application.
C16_Witness ==
    /\ Initialized
    /\ ResizedHandled(log)
    /\ log[1].new_size = [width |-> 1, height |-> 0]
    /\ panic = "New size should be valid"
    /\ app[1].surface # None

\* What the handlers of Suspend, AboutToWait, Exiting and MemoryWarning, and
\* the arm for the other window events, leave in the log.
QuietLogs ==
    {<<Info("Application suspended")>>, <<>>, <<Info("Application exiting")>>,
     <<Warn("Memory warning")>>, <<Info("Received window event")>>}

\* C17: while Initialized, a window event of the created window other than
\* RedrawRequested and Resized only logs, and the steps of Suspend,
\* AboutToWait, Exiting, MemoryWarning and of such a window event leave the
\* Application, its configuration and the pending redraw as they were, with
\* no render submitted or presented and no panic.
C17_QuietEvents ==
    /\ [](Initialized =>
            \A event \in {e \in WindowEvents :
                             e.kind \notin {"RedrawRequested", "Resized"}} :
                window_event_body(app, app[1].window, event, "Ok", ZeroSize)
                    = Outcome(app, NoPanic, <<Info("Received window event")>>))
    /\ [][(Initialized /\ log' \in QuietLogs /\ panic' = NoPanic) =>
            /\ app' = app
            /\ UNCHANGED <<redraw_requested, submits, presents, renders>>]_vars

\* A configured Application with a redraw pending has just been suspended.
C17_Witness ==
    /\ Initialized
    /\ app[1].surface # None
    /\ redraw_requested
    /\ panic = NoPanic
    /\ log = <<Info("Application suspended")>>

\* The fields of a surface configuration other than width and height.
OtherFields(config) ==
    [usage |-> config.usage,
     format |-> config.format,
     present_mode |-> config.present_mode,
     alpha_mode |-> config.alpha_mode,
     view_formats |-> config.view_formats,
     desired_maximum_frame_latency |-> config.desired_maximum_frame_latency]

\* C18: no step of an Initialized dispatcher changes a field of the stored
\* configuration other than width and height, so after any sequence of
\* resizes they are those of the construction; the usage, the view formats
\* and the frame latency are those of the literal in Application::new; and
\* a configuration applied to the surface carries the same fields.
C18_ResizeKeepsOtherFields ==
    /\ [](Initialized =>
            /\ app[1].config.usage = "RENDER_ATTACHMENT"
            /\ app[1].config.view_formats = <<>>
            /\ app[1].config.desired_maximum_frame_latency
                  = DesiredMaximumFrameLatency
            /\ app[1].surface # None =>
                  OtherFields(app[1].surface[1]) = OtherFields(app[1].config))
    /\ [][(Initialized /\ Initialized') =>
            OtherFields(app'[1].config) = OtherFields(app[1].config)]_vars

\* A successful resize of an Application constructed with the second
\* present mode, the second alpha mode and a non-sRGB format.
C18_Witness ==
    /\ Initialized
    /\ HasOp(log, "resize")
    /\ ResizeCall(log).result = "Ok"
    /\ app[1].surface = Some(app[1].config)
    /\ app[1].config.format = "Bgra8Unorm"
    /\ app[1].config.present_mode = "Mailbox"
    /\ app[1].config.alpha_mode = "PreMultiplied"

\* C19: a RedrawRequested handler whose render() returned Ok or an error
\* other than Lost called render() once, acquired one texture, did not read
\* the window size, did not call resize(), did not reconfigure the surface,
\* did not panic and left the Application as it was; so a RedrawRequested
\* handler that reconfigured the surface had its render() report Lost.
C19_ReconfigureOnlyOnLost ==
    [][/\ (HasOp(log', "render") /\ RenderResult(log') # "Lost") =>
            /\ CountOp(log', "render") = 1
            /\ CountOp(log', "get_current_texture") = 1
            /\ ~HasOp(log', "inner_size")
            /\ ~HasOp(log', "resize")
            /\ ~HasOp(log', "configure")
            /\ panic' = NoPanic
            /\ app' = app
       /\ (HasOp(log', "render") /\ HasOp(log', "configure")) =>
            /\ RenderResult(log') = "Lost"
            /\ CountOp(log', "render") = 1
            /\ CountOp(log', "configure") = 1]_vars

\* A render of a configured surface reported Outdated, which was logged.
C19_Witness ==
    /\ Initialized
    /\ app[1].surface # None
    /\ HasOp(log, "render")
    /\ RenderResult(log) = "Outdated"
    /\ log[Len(log) - 1] = Error("Outdated")
    /\ ~HasOp(log, "configure")

\* C20: in every Initialized state the stored configuration has a positive
\* width and a positive height.
C20_StoredConfigPositive ==
    Initialized =>
        /\ app[1].config.width > 0
        /\ app[1].config.height > 0

====
